---- MODULE Spec2Model ----
(***************************************************************************)
(* User Management System: registration, login, stateless session tokens   *)
(* and the admin-gated CRUD over the users table.                          *)
(*                                                                         *)
(* The store is the MySQL users table (unique username, unique email,      *)
(* AUTO_INCREMENT id).  Every request handler is an async function: it is  *)
(* modelled as one action per store round trip, so that two requests in    *)
(* flight interleave exactly at the awaits of the code.  The middleware    *)
(* chain and the first store query of a handler form the first step.       *)
(* A response is visible in `resp` for one state and is then acknowledged. *)
(* Timestamps (created_at, updated_at) and the bcrypt salt are not         *)
(* represented.                                                            *)
(***************************************************************************)
EXTENDS Integers, Sequences, FiniteSets, TLC

VARIABLES
  users,    \* the users table: id -> [username, email, password, role]
  nextId,   \* AUTO_INCREMENT counter of the users table
  now,      \* the clock (in units of the token lifetime)
  issued,   \* tokens signed by the server that clients still hold
  slot,     \* the request each client has in flight, and where it is
  resp,     \* the response just sent (NoResp when none is pending)
  seed,     \* position of createSampleUsers
  admitted, \* requests that got past their checks to a store write
  browser   \* the browser of client c1: the page shown and localStorage's token

vars == <<users, nextId, now, issued, slot, resp, seed, admitted, browser>>

(***************************************************************************)
(* Bounds                                                                  *)
(***************************************************************************)
MaxId == 4         \* ids the table may hand out
MaxTime == 1       \* last clock value
MaxTokens == 2
MaxMutations == 1  \* requests admitted to a store write in one run

Clients == {"c1", "c2"}

(***************************************************************************)
(* Program constants                                                       *)
(***************************************************************************)
ROLES == [ADMIN |-> "admin", USER |-> "user"]

saltRounds == 12

routeSaltRounds == 10

jwtExpiration == 1

jwtSecret == "secret"

sampleUsers ==
  << [username |-> "admin", email |-> "admin@example.com",
      password |-> "admin123", role |-> "admin"],
     [username |-> "john_doe", email |-> "john@example.com",
      password |-> "password123", role |-> "user"],
     [username |-> "jane_smith", email |-> "jane@example.com",
      password |-> "password123", role |-> "user"] >>

(***************************************************************************)
(* JSON values of a request body: a string, a number or an absent field.   *)
(***************************************************************************)
JStr(s) == [t |-> "string", v |-> s]
JNum(s) == [t |-> "number", v |-> s]
JUndef == [t |-> "undefined", v |-> ""]

\* JavaScript truthiness of a body field, as in `if (req.body.username)`
Truthy(x) == x.t # "undefined" /\ x.v # "" /\ ~(x.t = "number" /\ x.v = "0")

EmptyBody == [username |-> JUndef, email |-> JUndef, password |-> JUndef, role |-> JUndef]

(***************************************************************************)
(* express-validator checks.  The validators see the value converted to a  *)
(* string; they do not change req.body.                                    *)
(***************************************************************************)
WellFormedEmails ==
  {"admin@example.com", "john@example.com", "jane@example.com", "alice@x.com"}

notEmpty(x) == x.t # "undefined" /\ x.v # ""

isEmail(x) == x.t = "string" /\ x.v \in WellFormedEmails

isLengthMin6(x) == x.t # "undefined" /\ Len(x.v) >= 6

\* isIn accepting every string
isInRoles_Any(x) == x.t = "string"

isInRoles(x) == x.t = "string" /\ x.v \in {"admin", "user"}

\* .optional(): the check is skipped only when the field is undefined
optional(x, ok) == x.t = "undefined" \/ ok

(***************************************************************************)
(* bcryptjs                                                                *)
(***************************************************************************)
NoPassword == [alg |-> "undefined", rounds |-> 0, of |-> ""]

\* bcrypt.hash rejects ("Illegal arguments") unless the data is a string
bcryptThrows(x) == x.t # "string"

bcryptHash(x, rounds) == [alg |-> "bcrypt", rounds |-> rounds, of |-> x.v]

bcryptCompare(x, h) == h.alg = "bcrypt" /\ h.of = x.v

IsHash(h) == h.alg = "bcrypt"

(***************************************************************************)
(* Session tokens                                                          *)
(***************************************************************************)
NoToken == [id |-> 0, username |-> "", role |-> "", exp |-> 0, sig |-> "none"]

Malformed == [id |-> 0, username |-> "", role |-> "", exp |-> 0, sig |-> "malformed"]

Undefined == [id |-> 0, username |-> "", role |-> ""]

Claims(tok) == [id |-> tok.id, username |-> tok.username, role |-> tok.role]

\* jwt.sign without the expiresIn option taking effect
sign_ExpiresAtOnce(u, t) ==
  [id |-> u.id, username |-> u.username, role |-> u.role,
   exp |-> t, sig |-> jwtSecret]

\* the verification looking at the expiry before the signature
validate_ExpiryFirst(tok, t) ==
  IF ~(t < tok.exp) THEN "TokenExpired"
  ELSE IF tok.sig # jwtSecret THEN "TokenInvalid"
  ELSE "ok"

\* jwt.sign(tokenPayload, config.jwtSecret, {expiresIn: config.jwtExpiration})
sign(u, t) ==
  [id |-> u.id, username |-> u.username, role |-> u.role,
   exp |-> t + jwtExpiration, sig |-> jwtSecret]

\* signature first, then expiry
validate(tok, t) ==
  IF tok.sig # jwtSecret THEN "TokenInvalid"
  ELSE IF ~(t < tok.exp) THEN "TokenExpired"
  ELSE "ok"

\* true when the request may proceed; otherwise the boundary answers 401
authenticateToken(tok, t) == tok # NoToken /\ validate(tok, t) = "ok"

\* authorize looking the subject up in the store
authorize_StoredRole(claims, requiredRole) ==
  /\ claims # Undefined
  /\ claims.id \in DOMAIN users
  /\ (requiredRole = ROLES.USER \/ users[claims.id].role = requiredRole)

authorize(claims, requiredRole) ==
  IF requiredRole = ROLES.USER THEN claims # Undefined
  ELSE claims.role = requiredRole

(***************************************************************************)
(* Middleware chain of each route                                          *)
(***************************************************************************)
\* PUT /:id registered without authorize(ROLES.ADMIN)
Middleware_UpdateNoAuthorize(op) ==
  CASE op = "me" -> <<"authenticateToken">>
    [] op \in {"list", "get", "delete"} -> <<"authenticateToken", "authorize">>
    [] op = "create" -> <<"authenticateToken", "authorize", "check">>
    [] op = "update" -> <<"authenticateToken", "check">>
    [] op \in {"register", "login"} -> <<"check">>

\* GET /me registered without authenticateToken
Middleware_MeNoAuthenticate(op) ==
  CASE op = "me" -> << >>
    [] op \in {"list", "get", "delete"} -> <<"authenticateToken", "authorize">>
    [] op \in {"create", "update"} -> <<"authenticateToken", "authorize", "check">>
    [] op \in {"register", "login"} -> <<"check">>

\* DELETE /:id registered without authorize(ROLES.ADMIN)
Middleware_DeleteNoAuthorize(op) ==
  CASE op = "me" -> <<"authenticateToken">>
    [] op \in {"list", "get"} -> <<"authenticateToken", "authorize">>
    [] op = "delete" -> <<"authenticateToken">>
    [] op \in {"create", "update"} -> <<"authenticateToken", "authorize", "check">>
    [] op \in {"register", "login"} -> <<"check">>

Middleware(op) ==
  CASE op = "me" -> <<"authenticateToken">>
    [] op \in {"list", "get", "delete"} -> <<"authenticateToken", "authorize">>
    [] op \in {"create", "update"} -> <<"authenticateToken", "authorize", "check">>
    [] op \in {"register", "login"} -> <<"check">>

Has(op, m) == \E i \in DOMAIN Middleware(op) : Middleware(op)[i] = m

\* req.user as the handler of the route sees it
ReqUser(op, tok) == IF Has(op, "authenticateToken") THEN Claims(tok) ELSE Undefined

\* outcome of the authentication part of the chain: 401, 403 or 0 (next())
Gate(op, tok) ==
  IF Has(op, "authenticateToken") /\ ~authenticateToken(tok, now) THEN 401
  ELSE IF Has(op, "authorize") /\ ~authorize(ReqUser(op, tok), ROLES.ADMIN) THEN 403
  ELSE 0

(***************************************************************************)
(* User model                                                              *)
(***************************************************************************)
UserObj(i) ==
  [id |-> i, username |-> users[i].username, email |-> users[i].email,
   password |-> users[i].password, role |-> users[i].role]

NullJson == [null |-> TRUE]

AbsentJson == [absent |-> TRUE]

\* toJSON returning the instance as it is
toJSON_Whole(u) == u

\* const { password, ...safeUserData } = this
toJSON(u) == [f \in DOMAIN u \ {"password"} |-> u[f]]

\* res.json(...) of a User instance: JSON.stringify calls toJSON and omits
\* properties whose value is undefined
resJson(u) ==
  LET j == toJSON(u)
  IN [f \in {g \in DOMAIN j : g # "password" \/ j[g] # NoPassword} |-> j[f]]

\* the literal {id, username, email, role} built by register and login
BasicInfo(u) == [id |-> u.id, username |-> u.username, email |-> u.email, role |-> u.role]

findById(i) == IF i \in DOMAIN users THEN UserObj(i) ELSE NullJson

IdsByUsername(name) == {i \in DOMAIN users : users[i].username = name}

IdsByEmail(mail) == {i \in DOMAIN users : users[i].email = mail}

\* the lookup by username finding no row
findByUsername_None(name) == NullJson

findByUsername(name) ==
  IF IdsByUsername(name) = {} THEN NullJson
  ELSE UserObj(CHOOSE i \in IdsByUsername(name) : TRUE)

\* the lookup by email finding no row
findByEmail_None(mail) == NullJson

findByEmail(mail) ==
  IF IdsByEmail(mail) = {} THEN NullJson
  ELSE UserObj(CHOOSE i \in IdsByEmail(mail) : TRUE)

\* SELECT id, username, email, role, ...: the rows carry no password
getAllUsers ==
  {[UserObj(i) EXCEPT !.password = NoPassword] : i \in DOMAIN users}

(***************************************************************************)
(* The users table                                                         *)
(***************************************************************************)
\* the table without UNIQUE on the email column
UniqueViolation_UsernameOnly(t, self, rec) ==
  \E i \in DOMAIN t \ {self} : t[i].username = rec.username

\* username VARCHAR(50) UNIQUE, email VARCHAR(100) UNIQUE
UniqueViolation(t, self, rec) ==
  \E i \in DOMAIN t \ {self} :
    t[i].username = rec.username \/ t[i].email = rec.email

InsertRow(rec) ==
  [i \in DOMAIN users \cup {nextId} |-> IF i = nextId THEN rec ELSE users[i]]

DeleteRow(i) == [j \in DOMAIN users \ {i} |-> users[j]]

(***************************************************************************)
(* Requests in flight and responses                                        *)
(***************************************************************************)
Idle ==
  [op |-> "none", pc |-> "idle", token |-> NoToken, at |-> 0, id |-> 0,
   username |-> JUndef, email |-> JUndef, password |-> JUndef,
   role |-> JUndef, wrote |-> FALSE]

NoResp ==
  [client |-> "none", op |-> "none", status |-> 0, message |-> "",
   token |-> NoToken, user |-> AbsentJson, users |-> {}, errors |-> {},
   reqToken |-> NoToken, at |-> 0, id |-> 0, body |-> EmptyBody,
   ran |-> FALSE, wrote |-> FALSE]

\* a response sent from the first step of a request
Reply(c, op, tok, id, body, status, message) ==
  [NoResp EXCEPT !.client = c, !.op = op, !.status = status,
                 !.message = message, !.reqToken = tok, !.at = now,
                 !.id = id, !.body = body, !.ran = TRUE]

\* a response sent from a later step of the request in slot[c]
ReplyLater(c, status, message) ==
  [NoResp EXCEPT !.client = c, !.op = slot[c].op, !.status = status,
                 !.message = message, !.reqToken = slot[c].token, !.at = slot[c].at,
                 !.id = slot[c].id,
                 !.body = [username |-> slot[c].username, email |-> slot[c].email,
                           password |-> slot[c].password, role |-> slot[c].role],
                 !.ran = TRUE]

Free(c) == slot[c].pc = "idle" /\ resp = NoResp

At(c, op, pc) == slot[c].op = op /\ slot[c].pc = pc /\ resp = NoResp

\* the request of c ends with response r; `wrote` tells whether any of its
\* steps changed the users table
Finish(c, r) ==
  /\ browser' = browser
  /\ slot' = [slot EXCEPT ![c] = Idle]
  /\ resp' = [r EXCEPT !.wrote = slot[c].wrote \/ users' # users]

\* the request of c goes on from s at its next await
Goto(c, s) ==
  /\ browser' = browser
  /\ slot' = [slot EXCEPT ![c] = [s EXCEPT !.wrote = slot[c].wrote \/ users' # users]]
  /\ resp' = NoResp

\* a request that got past its checks and goes on to write
Admit(c, s) ==
  /\ admitted' = admitted + 1
  /\ Goto(c, [s EXCEPT !.at = now])

Init ==
  /\ users = << >>
  /\ nextId = 1
  /\ now = 0
  /\ issued = {}
  /\ slot = [c \in Clients |-> Idle]
  /\ resp = NoResp
  /\ seed = [pc |-> "count", i |-> 1]
  /\ admitted = 0
  /\ browser = [page |-> "login", token |-> NoToken]

(***************************************************************************)
(* createSampleUsers, called by initializeDatabase at startup              *)
(***************************************************************************)
\* the count of existing users taken for zero
AlreadySeeded_Never == FALSE

\* existingUsers[0].count > 0
AlreadySeeded == Cardinality(DOMAIN users) > 0

createSampleUsers_count ==
  /\ seed.pc = "count" /\ resp = NoResp
  /\ seed' = IF AlreadySeeded
             THEN [pc |-> "done", i |-> 1]
             ELSE [pc |-> "insert", i |-> 1]
  /\ UNCHANGED <<users, nextId, now, issued, slot, resp, admitted, browser>>

\* the credential createSampleUsers writes
SamplePassword(p) == bcryptHash(JStr(p), saltRounds)

createSampleUsers_insert ==
  /\ seed.pc = "insert" /\ resp = NoResp
  /\ LET u == sampleUsers[seed.i]
         rec == [username |-> u.username, email |-> u.email,
                 password |-> SamplePassword(u.password), role |-> u.role]
     IN IF UniqueViolation(users, 0, rec)
        THEN /\ seed' = [pc |-> "failed", i |-> seed.i]
             /\ UNCHANGED <<users, nextId>>
        ELSE /\ nextId <= MaxId
             /\ users' = InsertRow(rec)
             /\ nextId' = nextId + 1
             /\ seed' = IF seed.i = Len(sampleUsers)
                        THEN [pc |-> "done", i |-> 1]
                        ELSE [pc |-> "insert", i |-> seed.i + 1]
  /\ UNCHANGED <<now, issued, slot, resp, admitted, browser>>

\* initializeDatabase has returned
Ready == seed.pc \in {"done", "failed"}

(***************************************************************************)
(* Inputs                                                                  *)
(***************************************************************************)
Body(u, e, p, r) == [username |-> u, email |-> e, password |-> p, role |-> r]

RegisterBodies ==
  {Body(JStr("alice"), JStr("alice@x.com"), JStr("secret1"), JUndef),
   Body(JStr("alice"), JStr("alice@x.com"), JStr("secret1"), JStr("admin")),
   Body(JStr("alice"), JStr("alice@x.com"), JNum("123456"), JUndef),
   Body(JStr("alice"), JStr("alice@x.com"), JStr("short"), JUndef),
   Body(JStr("admin"), JStr("alice@x.com"), JStr("secret1"), JUndef),
   Body(JStr("alice"), JStr("admin@example.com"), JStr("secret1"), JUndef),
   Body(JStr("alice"), JStr("admin@example.com"), JNum("123456"), JUndef),
   Body(JStr("admin"), JStr("admin@example.com"), JStr("secret1"), JStr("admin")),
   Body(JStr(""), JStr("not-an-email"), JUndef, JUndef)}

LoginBodies ==
  {Body(JStr("admin"), JUndef, JStr("admin123"), JUndef),
   Body(JStr("admin"), JUndef, JStr("secret1"), JUndef),
   Body(JStr("admin"), JUndef, JNum("123456"), JUndef),
   Body(JStr("john_doe"), JUndef, JStr("password123"), JUndef),
   Body(JStr("alice"), JUndef, JStr("secret1"), JUndef),
   Body(JStr("ghost"), JUndef, JStr("secret1"), JUndef),
   Body(JStr("ghost"), JUndef, JNum("123456"), JUndef),
   Body(JStr(""), JUndef, JStr(""), JUndef)}

CreateBodies ==
  {Body(JStr("alice"), JStr("alice@x.com"), JStr("secret1"), JStr("admin")),
   Body(JStr("alice"), JStr("alice@x.com"), JStr("secret1"), JStr("user")),
   Body(JStr("alice"), JStr("alice@x.com"), JStr("secret1"), JStr("root")),
   Body(JStr("alice"), JStr("alice@x.com"), JStr("secret1"), JUndef),
   Body(JStr("alice"), JStr("alice@x.com"), JNum("123456"), JStr("user")),
   Body(JStr("admin"), JStr("alice@x.com"), JStr("secret1"), JStr("user")),
   Body(JStr("alice"), JStr("admin@example.com"), JStr("secret1"), JStr("user"))}

UpdateBodies ==
  {Body(JUndef, JUndef, JUndef, JUndef),
   Body(JUndef, JUndef, JUndef, JStr("user")),
   Body(JUndef, JUndef, JUndef, JStr("admin")),
   Body(JUndef, JUndef, JUndef, JStr("root")),
   Body(JStr("admin"), JUndef, JUndef, JUndef),
   Body(JStr("alice"), JUndef, JUndef, JUndef),
   Body(JUndef, JStr("admin@example.com"), JUndef, JUndef),
   Body(JUndef, JUndef, JStr("secret1"), JUndef),
   Body(JUndef, JUndef, JNum("123456"), JUndef),
   Body(JStr("alice"), JUndef, JUndef, JStr("admin")),
   Body(JStr("alice"), JStr("alice@x.com"), JStr("secret1"), JStr("user"))}

\* tokens not signed with the server secret: forged claims, with and without
\* a lapsed expiry, and a token of the server whose claims were altered
ForgedTokens ==
  {[id |-> 1, username |-> "admin", role |-> "admin", exp |-> MaxTime + 1, sig |-> "other"],
   [id |-> 1, username |-> "admin", role |-> "admin", exp |-> 0, sig |-> "other"],
   [id |-> 2, username |-> "john_doe", role |-> "admin", exp |-> MaxTime + 1, sig |-> "altered"]}

Presentable == issued \cup ForgedTokens \cup {NoToken, Malformed}

Ids == 1..MaxId

ProtectedOps == {"me", "list", "get", "create", "update", "delete"}

\* the tokens the middleware chain of op lets through to the handler
Passing(op) == {tok \in Presentable : Gate(op, tok) = 0}

(***************************************************************************)
(* Messages of the catch blocks                                            *)
(***************************************************************************)
CatchMessage(op) ==
  CASE op = "register" -> "Registration failed, please try again"
    [] op = "login" -> "Login failed, please try again"
    [] op = "me" -> "Could not retrieve profile"
    [] op = "list" -> "Could not retrieve users"
    [] op = "get" -> "Could not retrieve user"
    [] op = "create" -> "Could not create user"
    [] op = "update" -> "Could not update user"
    [] op = "delete" -> "Could not delete user"

\* the tokens the clients hold after receiving tok (at most MaxTokens)
Keep(tok) == IF Cardinality(issued) < MaxTokens THEN issued \cup {tok} ELSE issued

(***************************************************************************)
(* The authentication boundary: authenticateToken and authorize end the    *)
(* request before its handler                                              *)
(***************************************************************************)
Boundary(c, op, tok) ==
  /\ Free(c)
  /\ Gate(op, tok) # 0
  /\ UNCHANGED <<users, nextId, now, issued, seed, admitted>>
  /\ Finish(c, [Reply(c, op, tok, 0, EmptyBody, Gate(op, tok),
                      IF Gate(op, tok) = 401 THEN "Unauthorized" ELSE "Forbidden")
                  EXCEPT !.ran = FALSE])

(***************************************************************************)
(* POST /api/auth/register                                                 *)
(***************************************************************************)
RegisterErrors(body) ==
  (IF notEmpty(body.username) THEN {} ELSE {"username"})
  \cup (IF isEmail(body.email) THEN {} ELSE {"email"})
  \cup (IF isLengthMin6(body.password) THEN {} ELSE {"password"})

\* the route passing on the role of the request body
RegisterRole_FromBody(body) ==
  IF body.role.t = "undefined" THEN ROLES.USER ELSE body.role.v

\* the role handed to User.createUser
RegisterRole(body) == ROLES.USER

Register(c, body) ==
  /\ Free(c)
  /\ nextId <= MaxId
  /\ UNCHANGED <<users, nextId, now, issued, seed>>
  /\ LET r == Reply(c, "register", NoToken, 0, body, 400, "")
     IN IF RegisterErrors(body) # {}
        THEN /\ Finish(c, [r EXCEPT !.message = "Please check your input",
                                    !.errors = RegisterErrors(body)])
             /\ UNCHANGED admitted
        ELSE IF findByUsername(body.username.v) # NullJson
        THEN /\ Finish(c, [r EXCEPT !.message = "Username already taken"])
             /\ UNCHANGED admitted
        ELSE Admit(c, [Idle EXCEPT !.op = "register", !.pc = "findByEmail",
                                   !.username = body.username, !.email = body.email,
                                   !.password = body.password, !.role = body.role])

\* second pre-check of register and of admin-create
findByEmail_check(c) ==
  /\ slot[c].op \in {"register", "create"}
  /\ slot[c].pc = "findByEmail" /\ resp = NoResp
  /\ UNCHANGED <<users, nextId, now, issued, seed, admitted>>
  /\ IF findByEmail(slot[c].email.v) # NullJson
     THEN Finish(c, ReplyLater(c, 400, "Email already registered"))
     ELSE Goto(c, [slot[c] EXCEPT !.pc = "createUser"])

\* createUser falling back to its default role for every caller
CreateRole_AlwaysUser(s) == ROLES.USER

\* the role argument of User.createUser at its two call sites
CreateRole(s) ==
  IF s.op = "register" THEN RegisterRole(s)
  ELSE IF s.role.t = "undefined" THEN ROLES.USER ELSE s.role.v

\* createUser inserting the password it was given
CreatePassword_Plain(x) == [alg |-> "plain", rounds |-> 0, of |-> x.v]

\* the credential User.createUser writes
CreatePassword(x) == bcryptHash(x, saltRounds)

\* User.createUser: bcrypt.hash, then INSERT
createUser(c) ==
  /\ slot[c].op \in {"register", "create"}
  /\ slot[c].pc = "createUser" /\ resp = NoResp
  /\ UNCHANGED <<now, issued, seed, admitted>>
  /\ LET s == slot[c]
         rec == [username |-> s.username.v, email |-> s.email.v,
                 password |-> CreatePassword(s.password),
                 role |-> CreateRole(s)]
     IN IF bcryptThrows(s.password) \/ UniqueViolation(users, 0, rec)
        THEN /\ UNCHANGED <<users, nextId>>
             /\ Finish(c, ReplyLater(c, 500, CatchMessage(s.op)))
        ELSE /\ nextId <= MaxId
             /\ users' = InsertRow(rec)
             /\ nextId' = nextId + 1
             /\ Goto(c, [s EXCEPT !.pc = "createUser_findById", !.id = nextId])

\* User.createUser: return await User.findById(result.insertId), and the
\* rest of the handler that called it
createUser_findById(c) ==
  /\ slot[c].op \in {"register", "create"}
  /\ slot[c].pc = "createUser_findById" /\ resp = NoResp
  /\ UNCHANGED <<users, nextId, now, seed, admitted>>
  /\ LET s == slot[c]
         newUser == findById(s.id)
     IN IF s.op = "register"
        THEN IF newUser = NullJson
             THEN /\ Finish(c, ReplyLater(c, 500, CatchMessage(s.op)))
                  /\ UNCHANGED issued
             ELSE /\ issued' = Keep(sign(newUser, now))
                  /\ Finish(c, [ReplyLater(c, 201, "Registration successful")
                                  EXCEPT !.token = sign(newUser, now),
                                         !.user = BasicInfo(newUser)])
        ELSE /\ Finish(c, [ReplyLater(c, 201, "User created successfully")
                              EXCEPT !.user = IF newUser = NullJson THEN NullJson
                                              ELSE resJson(newUser)])
             /\ UNCHANGED issued

(***************************************************************************)
(* POST /api/auth/login                                                    *)
(***************************************************************************)
LoginErrors(body) ==
  (IF notEmpty(body.username) THEN {} ELSE {"username"})
  \cup (IF notEmpty(body.password) THEN {} ELSE {"password"})

\* User.checkPassword: rethrows what bcrypt.compare rejects with
checkPasswordThrows(u, x) == bcryptThrows(x)

\* checkPassword accepting every password
checkPassword_Always(u, x) == TRUE

checkPassword(u, x) == bcryptCompare(x, u.password)

Login(c, body) ==
  /\ Free(c)
  /\ UNCHANGED <<users, nextId, now, seed, admitted>>
  /\ LET r == Reply(c, "login", NoToken, 0, body, 400, "")
         user == findByUsername(body.username.v)
     IN IF LoginErrors(body) # {}
        THEN /\ Finish(c, [r EXCEPT !.message = "Please provide username and password",
                                    !.errors = LoginErrors(body)])
             /\ UNCHANGED issued
        ELSE IF user = NullJson
        THEN /\ Finish(c, [r EXCEPT !.message = "Invalid username or password"])
             /\ UNCHANGED issued
        ELSE IF checkPasswordThrows(user, body.password)
        THEN /\ Finish(c, [r EXCEPT !.status = 500, !.message = CatchMessage("login")])
             /\ UNCHANGED issued
        ELSE IF ~checkPassword(user, body.password)
        THEN /\ Finish(c, [r EXCEPT !.message = "Invalid username or password"])
             /\ UNCHANGED issued
        ELSE /\ issued' = Keep(sign(user, now))
             /\ Finish(c, [r EXCEPT !.status = 200, !.message = "Login successful",
                                    !.token = sign(user, now),
                                    !.user = BasicInfo(user)])

(***************************************************************************)
(* GET /api/auth/me                                                        *)
(***************************************************************************)
\* the profile taken from the claims of the token
ProfileOf_Claims(reqUser) ==
  [id |-> reqUser.id, username |-> reqUser.username, email |-> "",
   password |-> NoPassword, role |-> reqUser.role]

\* const userId = req.user.id; const user = await User.findById(userId)
ProfileOf(reqUser) == findById(reqUser.id)

Me(c, tok) ==
  /\ Free(c)
  /\ Gate("me", tok) = 0
  /\ UNCHANGED <<users, nextId, now, issued, seed, admitted>>
  /\ LET r == Reply(c, "me", tok, 0, EmptyBody, 200, "")
         reqUser == ReqUser("me", tok)
         user == ProfileOf(reqUser)
     IN IF reqUser = Undefined
        THEN Finish(c, [r EXCEPT !.status = 500, !.message = CatchMessage("me")])
        ELSE IF user = NullJson
        THEN Finish(c, [r EXCEPT !.status = 404, !.message = "User not found"])
        ELSE Finish(c, [r EXCEPT !.message = "Profile retrieved successfully",
                                 !.user = toJSON(user)])

(***************************************************************************)
(* GET /api/users and GET /api/users/:id                                   *)
(***************************************************************************)
ListUsers(c, tok) ==
  /\ Free(c)
  /\ Gate("list", tok) = 0
  /\ UNCHANGED <<users, nextId, now, issued, seed, admitted>>
  /\ Finish(c, [Reply(c, "list", tok, 0, EmptyBody, 200, "")
                  EXCEPT !.users = {resJson(u) : u \in getAllUsers}])

GetUser(c, tok, id) ==
  /\ Free(c)
  /\ Gate("get", tok) = 0
  /\ UNCHANGED <<users, nextId, now, issued, seed, admitted>>
  /\ LET r == Reply(c, "get", tok, id, EmptyBody, 200, "")
         user == findById(id)
     IN IF user = NullJson
        THEN Finish(c, [r EXCEPT !.status = 404, !.message = "User not found"])
        ELSE Finish(c, [r EXCEPT !.user = resJson(user)])

(***************************************************************************)
(* POST /api/users                                                         *)
(***************************************************************************)
CreateErrors(body) ==
  (IF notEmpty(body.username) THEN {} ELSE {"username"})
  \cup (IF isEmail(body.email) THEN {} ELSE {"email"})
  \cup (IF isLengthMin6(body.password) THEN {} ELSE {"password"})
  \cup (IF isInRoles(body.role) THEN {} ELSE {"role"})

CreateUser(c, tok, body) ==
  /\ Free(c)
  /\ Gate("create", tok) = 0
  /\ nextId <= MaxId
  /\ UNCHANGED <<users, nextId, now, issued, seed>>
  /\ LET r == Reply(c, "create", tok, 0, body, 400, "")
     IN IF CreateErrors(body) # {}
        THEN /\ Finish(c, [r EXCEPT !.message = "Invalid input data",
                                    !.errors = CreateErrors(body)])
             /\ UNCHANGED admitted
        ELSE IF findByUsername(body.username.v) # NullJson
        THEN /\ Finish(c, [r EXCEPT !.message = "Username already taken"])
             /\ UNCHANGED admitted
        ELSE Admit(c, [Idle EXCEPT !.op = "create", !.pc = "findByEmail",
                                   !.token = tok,
                                   !.username = body.username, !.email = body.email,
                                   !.password = body.password, !.role = body.role])

(***************************************************************************)
(* PUT /api/users/:id                                                      *)
(***************************************************************************)
\* the handler going on without the check of the loaded record
TargetOf_Unchecked(id) ==
  IF id \in DOMAIN users THEN UserObj(id)
  ELSE [id |-> id, username |-> "", email |-> "", password |-> NoPassword, role |-> ""]

\* the target record update and delete load first: User.findById(userId),
\* null answered 404
TargetOf(id) == findById(id)

UpdateErrors(body) ==
  (IF optional(body.username, notEmpty(body.username)) THEN {} ELSE {"username"})
  \cup (IF optional(body.email, isEmail(body.email)) THEN {} ELSE {"email"})
  \cup (IF optional(body.password, isLengthMin6(body.password)) THEN {} ELSE {"password"})
  \cup (IF optional(body.role, isInRoles(body.role)) THEN {} ELSE {"role"})

\* the guard looking at the role only when it is admin
SelfDemotion_WrongRole(existingUser, reqUser, body) ==
  /\ existingUser.id = reqUser.id
  /\ Truthy(body.role)
  /\ body.role.v = ROLES.ADMIN

\* Prevent admin from removing their own admin privileges
SelfDemotion(existingUser, reqUser, body) ==
  /\ existingUser.id = reqUser.id
  /\ Truthy(body.role)
  /\ body.role.v # ROLES.ADMIN

\* the fields of the `updates` object the route builds
Updates(s) == {f \in {"username", "email", "password"} : Truthy(s[f])}

UpdateUser(c, tok, id, body) ==
  /\ Free(c)
  /\ Gate("update", tok) = 0
  /\ UNCHANGED <<users, nextId, now, issued, seed>>
  /\ LET r == Reply(c, "update", tok, id, body, 400, "")
         reqUser == ReqUser("update", tok)
         existingUser == TargetOf(id)
     IN IF UpdateErrors(body) # {}
        THEN /\ Finish(c, [r EXCEPT !.message = "Invalid input data",
                                    !.errors = UpdateErrors(body)])
             /\ UNCHANGED admitted
        ELSE IF existingUser = NullJson
        THEN /\ Finish(c, [r EXCEPT !.status = 404, !.message = "User not found"])
             /\ UNCHANGED admitted
        ELSE IF reqUser = Undefined
        THEN /\ Finish(c, [r EXCEPT !.status = 500, !.message = CatchMessage("update")])
             /\ UNCHANGED admitted
        ELSE IF SelfDemotion(existingUser, reqUser, body)
        THEN /\ Finish(c, [r EXCEPT !.message = "You cannot remove your own admin privileges"])
             /\ UNCHANGED admitted
        ELSE IF Truthy(body.password) /\ bcryptThrows(body.password)
        THEN /\ Finish(c, [r EXCEPT !.status = 500, !.message = CatchMessage("update")])
             /\ UNCHANGED admitted
        ELSE Admit(c, [Idle EXCEPT !.op = "update", !.pc = "updateUser",
                                   !.token = tok, !.id = id,
                                   !.username = body.username, !.email = body.email,
                                   !.password = body.password, !.role = body.role])

allowedFields == {"username", "email"}

\* the SET clause User.updateUser builds from the updates object
UpdateParts(s) == Updates(s) \cap allowedFields

\* the credential the route puts in the updates object
UpdatePassword(x) == bcryptHash(x, routeSaltRounds)

\* the UPDATE writing the default role along with the supplied fields
UpdatedRow_ResetRole(row, s) ==
  [username |-> IF "username" \in UpdateParts(s) THEN s.username.v ELSE row.username,
   email |-> IF "email" \in UpdateParts(s) THEN s.email.v ELSE row.email,
   password |-> row.password,
   role |-> ROLES.USER]

\* the row after UPDATE users SET ... WHERE id = ?
UpdatedRow(row, s) ==
  [username |-> IF "username" \in UpdateParts(s) THEN s.username.v ELSE row.username,
   email |-> IF "email" \in UpdateParts(s) THEN s.email.v ELSE row.email,
   password |-> IF "password" \in UpdateParts(s)
                THEN UpdatePassword(s.password) ELSE row.password,
   role |-> row.role]

\* what the handler does with the record User.updateUser returns
AfterUpdateUser(c) ==
  IF Truthy(slot[c].role)
  THEN Goto(c, [slot[c] EXCEPT !.pc = "updateUserRole"])
  ELSE Finish(c, [ReplyLater(c, 200, "User updated successfully")
                    EXCEPT !.user = IF findById(slot[c].id) = NullJson THEN NullJson
                                    ELSE resJson(findById(slot[c].id))])

\* User.updateUser: the UPDATE, or the plain findById when no field is left
updateUser(c) ==
  /\ At(c, "update", "updateUser")
  /\ UNCHANGED <<nextId, now, issued, seed, admitted>>
  /\ LET s == slot[c]
     IN IF UpdateParts(s) = {}
        THEN UNCHANGED users /\ AfterUpdateUser(c)
        ELSE IF s.id \notin DOMAIN users
        THEN UNCHANGED users /\ Goto(c, [s EXCEPT !.pc = "updateUser_findById"])
        ELSE IF UniqueViolation(users, s.id, UpdatedRow(users[s.id], s))
        THEN UNCHANGED users /\ Finish(c, ReplyLater(c, 500, CatchMessage("update")))
        ELSE /\ users' = [users EXCEPT ![s.id] = UpdatedRow(users[s.id], s)]
             /\ Goto(c, [s EXCEPT !.pc = "updateUser_findById"])

\* User.updateUser: return await User.findById(userId)
updateUser_findById(c) ==
  /\ At(c, "update", "updateUser_findById")
  /\ UNCHANGED <<users, nextId, now, issued, seed, admitted>>
  /\ AfterUpdateUser(c)

\* User.updateUserRole: the UPDATE of the role column
updateUserRole(c) ==
  /\ At(c, "update", "updateUserRole")
  /\ UNCHANGED <<nextId, now, issued, seed, admitted>>
  /\ LET s == slot[c]
     IN IF s.role.v \notin {ROLES.ADMIN, ROLES.USER}
        THEN UNCHANGED users /\ Finish(c, ReplyLater(c, 500, CatchMessage("update")))
        ELSE IF s.id \notin DOMAIN users
        THEN UNCHANGED users /\ Goto(c, [s EXCEPT !.pc = "updateUserRole_findById"])
        ELSE /\ users' = [users EXCEPT ![s.id].role = s.role.v]
             /\ Goto(c, [s EXCEPT !.pc = "updateUserRole_findById"])

\* User.updateUserRole: return await User.findById(userId), and the response
updateUserRole_findById(c) ==
  /\ At(c, "update", "updateUserRole_findById")
  /\ UNCHANGED <<users, nextId, now, issued, seed, admitted>>
  /\ Finish(c, [ReplyLater(c, 200, "User updated successfully")
                  EXCEPT !.user = IF findById(slot[c].id) = NullJson THEN NullJson
                                  ELSE resJson(findById(slot[c].id))])

(***************************************************************************)
(* DELETE /api/users/:id                                                   *)
(***************************************************************************)
\* the guard comparing the username with the id of the token
SelfDeletion_WrongField(user, reqUser) == user.username = reqUser.username /\ user.id # reqUser.id

\* Prevent admin from deleting themselves
SelfDeletion(user, reqUser) == user.id = reqUser.id

DeleteUser(c, tok, id) ==
  /\ Free(c)
  /\ Gate("delete", tok) = 0
  /\ UNCHANGED <<users, nextId, now, issued, seed>>
  /\ LET r == Reply(c, "delete", tok, id, EmptyBody, 400, "")
         reqUser == ReqUser("delete", tok)
         user == TargetOf(id)
     IN IF user = NullJson
        THEN /\ Finish(c, [r EXCEPT !.status = 404, !.message = "User not found"])
             /\ UNCHANGED admitted
        ELSE IF reqUser = Undefined
        THEN /\ Finish(c, [r EXCEPT !.status = 500, !.message = CatchMessage("delete")])
             /\ UNCHANGED admitted
        ELSE IF SelfDeletion(user, reqUser)
        THEN /\ Finish(c, [r EXCEPT !.message = "You cannot delete your own account"])
             /\ UNCHANGED admitted
        ELSE Admit(c, [Idle EXCEPT !.op = "delete", !.pc = "deleteUser",
                                   !.token = tok, !.id = id,
                                   !.username = JStr(user.username)])

\* the DELETE reporting a removed row for every id
affectedRows_Any(id) == IF id \in DOMAIN users THEN 1 ELSE 1

\* result.affectedRows of DELETE FROM users WHERE id = ?
affectedRows(id) == IF id \in DOMAIN users THEN 1 ELSE 0

\* User.deleteUser and the response of the route
deleteUser(c) ==
  /\ At(c, "delete", "deleteUser")
  /\ UNCHANGED <<nextId, now, issued, seed, admitted>>
  /\ LET s == slot[c]
         deleted == affectedRows(s.id) > 0
     IN /\ users' = DeleteRow(s.id)
        /\ IF deleted
           THEN Finish(c, ReplyLater(c, 200, "User deleted successfully"))
           ELSE Finish(c, ReplyLater(c, 500, "Failed to delete user"))

(***************************************************************************)
(* The clock, and the client taking its response                           *)
(***************************************************************************)
Tick ==
  /\ resp = NoResp
  /\ now < MaxTime
  /\ now' = now + 1
  /\ UNCHANGED <<users, nextId, issued, slot, resp, seed, admitted, browser>>

Ack ==
  /\ resp # NoResp
  /\ resp' = NoResp
  /\ UNCHANGED <<users, nextId, now, issued, slot, seed, admitted, browser>>

(***************************************************************************)
(* Spec: one client, whose requests arrive once the database is seeded     *)
(***************************************************************************)
Arrive(c) ==
  \/ \E op \in ProtectedOps, tok \in Presentable : Boundary(c, op, tok)
  \/ \E body \in RegisterBodies : Register(c, body)
  \/ \E body \in LoginBodies : Login(c, body)
  \/ \E tok \in Passing("me") : Me(c, tok)
  \/ \E tok \in Passing("list") : ListUsers(c, tok)
  \/ \E tok \in Passing("get"), id \in Ids : GetUser(c, tok, id)
  \/ \E tok \in Passing("create"), body \in CreateBodies : CreateUser(c, tok, body)
  \/ \E tok \in Passing("update"), id \in Ids, body \in UpdateBodies :
       UpdateUser(c, tok, id, body)
  \/ \E tok \in Passing("delete"), id \in Ids : DeleteUser(c, tok, id)

Proceed(c) ==
  \/ findByEmail_check(c)
  \/ createUser(c)
  \/ createUser_findById(c)
  \/ updateUser(c)
  \/ updateUser_findById(c)
  \/ updateUserRole(c)
  \/ updateUserRole_findById(c)
  \/ deleteUser(c)

Next ==
  \/ createSampleUsers_count
  \/ createSampleUsers_insert
  \/ (Ready /\ Arrive("c1") /\ admitted' <= MaxMutations)
  \/ Proceed("c1")
  \/ Tick
  \/ Ack

Spec == Init /\ [][Next]_vars

(***************************************************************************)
(* SpecRace: two clients whose requests interleave at every await, and     *)
(* with the seeding of the database                                        *)
(***************************************************************************)
RaceMutations == 2

RaceRegisterBodies ==
  {Body(JStr("alice"), JStr("alice@x.com"), JStr("secret1"), JUndef),
   Body(JStr("alicia"), JStr("alice@x.com"), JStr("secret1"), JUndef)}

RaceLoginBodies == {Body(JStr("admin"), JUndef, JStr("admin123"), JUndef)}

RaceCreateBodies ==
  {Body(JStr("alice"), JStr("alice@x.com"), JStr("secret1"), JStr("user"))}

RaceUpdateBodies ==
  {Body(JStr("alice"), JUndef, JUndef, JUndef),
   Body(JUndef, JStr("alice@x.com"), JUndef, JStr("admin"))}

RaceIds == {2}

ArriveRace(c) ==
  \/ \E body \in RaceRegisterBodies : Register(c, body)
  \/ \E body \in RaceLoginBodies : Login(c, body)
  \/ \E tok \in Passing("create"), body \in RaceCreateBodies : CreateUser(c, tok, body)
  \/ \E tok \in Passing("update"), id \in RaceIds, body \in RaceUpdateBodies :
       UpdateUser(c, tok, id, body)
  \/ \E tok \in Passing("delete"), id \in RaceIds : DeleteUser(c, tok, id)

NextRace ==
  \/ createSampleUsers_count
  \/ createSampleUsers_insert
  \/ \E c \in Clients : ArriveRace(c) /\ admitted' <= RaceMutations
  \/ \E c \in Clients : Proceed(c)
  \/ Ack

SpecRace == Init /\ [][NextRace]_vars

(***************************************************************************)
(* SpecModel: the routes of the admin, and User.updateUserRole called      *)
(* directly, without the validators of a route in front of it              *)
(***************************************************************************)
ModelRoles == {"admin", "user", "root", ""}

ModelIds == {1, 2}

ModelLoginBodies == {Body(JStr("admin"), JUndef, JStr("admin123"), JUndef)}

\* User.updateUserRole(userId, newRole) from a caller other than PUT /:id
updateUserRole_call(c, userId, newRole) ==
  /\ Free(c)
  /\ UNCHANGED <<users, nextId, now, issued, seed>>
  /\ Admit(c, [Idle EXCEPT !.op = "update", !.pc = "updateUserRole",
                           !.id = userId, !.role = JStr(newRole)])

ArriveModel(c) ==
  \/ \E body \in ModelLoginBodies : Login(c, body)
  \/ \E tok \in Passing("create"), body \in CreateBodies : CreateUser(c, tok, body)
  \/ \E tok \in Passing("update"), id \in ModelIds, body \in UpdateBodies :
       UpdateUser(c, tok, id, body)
  \/ \E tok \in Passing("delete"), id \in ModelIds : DeleteUser(c, tok, id)
  \/ \E id \in ModelIds, role \in ModelRoles : updateUserRole_call(c, id, role)

NextModel ==
  \/ createSampleUsers_count
  \/ createSampleUsers_insert
  \/ (Ready /\ ArriveModel("c1") /\ admitted' <= MaxMutations)
  \/ Proceed("c1")
  \/ Ack

SpecModel == Init /\ [][NextModel]_vars

(***************************************************************************)
(* SpecLockout: logins, role changes and deletes among the first two       *)
(* users, one request after the other                                      *)
(***************************************************************************)
LockoutMutations == 3

LockoutLoginBodies ==
  {Body(JStr("admin"), JUndef, JStr("admin123"), JUndef),
   Body(JStr("john_doe"), JUndef, JStr("password123"), JUndef)}

LockoutUpdateBodies ==
  {Body(JUndef, JUndef, JUndef, JStr("admin")),
   Body(JUndef, JUndef, JUndef, JStr("user"))}

LockoutIds == {1, 2}

ArriveLockout(c) ==
  \/ \E body \in LockoutLoginBodies : Login(c, body)
  \/ \E tok \in Passing("update"), id \in LockoutIds, body \in LockoutUpdateBodies :
       UpdateUser(c, tok, id, body)
  \/ \E tok \in Passing("delete"), id \in LockoutIds : DeleteUser(c, tok, id)

ProceedLockout(c) ==
  \/ updateUser(c)
  \/ updateUserRole(c)
  \/ updateUserRole_findById(c)
  \/ deleteUser(c)

NextLockout ==
  \/ createSampleUsers_count
  \/ createSampleUsers_insert
  \/ (Ready /\ ArriveLockout("c1") /\ admitted' <= LockoutMutations)
  \/ ProceedLockout("c1")
  \/ Ack

SpecLockout == Init /\ [][NextLockout]_vars

(***************************************************************************)
(* SpecInit: the server started again and again, initializeDatabase        *)
(* running at every start while requests are already served                *)
(***************************************************************************)
InitRegisterBodies ==
  {Body(JStr("alice"), JStr("alice@x.com"), JStr("secret1"), JUndef),
   Body(JStr("admin"), JStr("alice@x.com"), JStr("secret1"), JUndef)}

InitLoginBodies == {Body(JStr("admin"), JUndef, JStr("admin123"), JUndef)}

InitIds == {2, 3}

\* the next start of the server: User.seedDatabase() is called again
seedDatabase_again ==
  /\ Ready
  /\ resp = NoResp
  /\ \A c \in Clients : slot[c].pc = "idle"
  /\ seed' = [pc |-> "count", i |-> 1]
  /\ UNCHANGED <<users, nextId, now, issued, slot, resp, admitted, browser>>

ArriveInit(c) ==
  \/ \E body \in InitRegisterBodies : Register(c, body)
  \/ \E body \in InitLoginBodies : Login(c, body)
  \/ \E tok \in Passing("delete"), id \in InitIds : DeleteUser(c, tok, id)

ProceedInit(c) ==
  \/ findByEmail_check(c)
  \/ createUser(c)
  \/ createUser_findById(c)
  \/ deleteUser(c)

NextInit ==
  \/ createSampleUsers_count
  \/ createSampleUsers_insert
  \/ seedDatabase_again
  \/ (ArriveInit("c1") /\ admitted' <= MaxMutations)
  \/ ProceedInit("c1")
  \/ Ack

SpecInit == Init /\ [][NextInit]_vars

(***************************************************************************)
(* SpecBrowser: the pages of public/script driving the API as client c1    *)
(***************************************************************************)
BrowserLoginBodies ==
  {Body(JStr("admin"), JUndef, JStr("admin123"), JUndef),
   Body(JStr("john_doe"), JUndef, JStr("password123"), JUndef),
   Body(JStr("jane_smith"), JUndef, JStr("password123"), JUndef),
   Body(JStr("john_doe"), JUndef, JStr("admin123"), JUndef)}

\* the API calls of dashboard.html and of admin-dashboard.html
DashboardUrls == {[op |-> "me", id |-> 0]}

AdminUrls == {[op |-> "list", id |-> 0], [op |-> "get", id |-> 2],
              [op |-> "delete", id |-> 2]}

\* x-auth-token of mergedOptions.headers on the user dashboard:
\* defaultOptions.headers = {'x-auth-token': token, ...}, and no caller
\* passes that header in options
xAuthToken_dashboard(token) == token

\* x-auth-token of mergedOptions.headers on the admin dashboard: the headers
\* of defaultOptions are commented out, so only the caller's headers are sent
xAuthToken_admin(token) == NoToken

\* fetch(url, mergedOptions) reaching the route of url
fetch(c, url, tok) ==
  IF Gate(url.op, tok) # 0 THEN Boundary(c, url.op, tok)
  ELSE CASE url.op = "me" -> Me(c, tok)
         [] url.op = "list" -> ListUsers(c, tok)
         [] url.op = "get" -> GetUser(c, tok, url.id)
         [] url.op = "delete" -> DeleteUser(c, tok, url.id)

redirectToLogin ==
  /\ browser' = [page |-> "login", token |-> NoToken]
  /\ UNCHANGED <<users, nextId, now, issued, slot, resp, seed, admitted>>

loginUser(body) ==
  /\ browser.page = "login"
  /\ Truthy(body.username) /\ Truthy(body.password)
  /\ Login("c1", body)

\* .then((data) => { localStorage.setItem('token', data.token); ... })
loginUser_then ==
  /\ resp # NoResp /\ resp.op = "login"
  /\ browser' = IF resp.status = 200
                 THEN [page |-> IF resp.user.role = ROLES.ADMIN
                                THEN "admin-dashboard" ELSE "dashboard",
                       token |-> resp.token]
                 ELSE browser
  /\ resp' = NoResp
  /\ UNCHANGED <<users, nextId, now, issued, slot, seed, admitted>>

fetchWithAuth_dashboard(url) ==
  /\ browser.page = "dashboard"
  /\ Free("c1")
  /\ IF browser.token = NoToken
     THEN redirectToLogin
     ELSE fetch("c1", url, xAuthToken_dashboard(browser.token))

fetchWithAuth_admin(url) ==
  /\ browser.page = "admin-dashboard"
  /\ Free("c1")
  /\ IF browser.token = NoToken
     THEN redirectToLogin
     ELSE fetch("c1", url, xAuthToken_admin(browser.token))

\* if (response.status === 401) { localStorage.removeItem('token');
\* redirectToLogin(); ... }
fetchWithAuth_then ==
  /\ resp # NoResp /\ resp.op \in {"me", "list", "get", "delete"}
  /\ browser' = IF resp.status = 401
                 THEN [page |-> "login", token |-> NoToken]
                 ELSE browser
  /\ resp' = NoResp
  /\ UNCHANGED <<users, nextId, now, issued, slot, seed, admitted>>

logout ==
  /\ browser.page \in {"dashboard", "admin-dashboard"}
  /\ Free("c1")
  /\ redirectToLogin

\* the user opens a dashboard page: handleAuthenticationRouting(currentPage)
handleAuthenticationRouting(page) ==
  /\ Free("c1")
  /\ browser' =
       IF browser.token = NoToken \/ now >= browser.token.exp
       THEN [page |-> "login", token |-> NoToken]
       ELSE IF page = "admin-dashboard" /\ browser.token.role # ROLES.ADMIN
       THEN [browser EXCEPT !.page = "dashboard"]
       ELSE [browser EXCEPT !.page = page]
  /\ UNCHANGED <<users, nextId, now, issued, slot, resp, seed, admitted>>

NextBrowser ==
  \/ createSampleUsers_count
  \/ createSampleUsers_insert
  \/ \E body \in BrowserLoginBodies : Ready /\ loginUser(body)
  \/ loginUser_then
  \/ \E url \in DashboardUrls : fetchWithAuth_dashboard(url)
  \/ \E url \in AdminUrls : fetchWithAuth_admin(url)
  \/ fetchWithAuth_then
  \/ logout
  \/ \E page \in {"dashboard", "admin-dashboard"} : handleAuthenticationRouting(page)
  \/ Tick

SpecBrowser == Init /\ [][NextBrowser]_vars

(***************************************************************************)
(* Vocabulary of the properties                                            *)
(***************************************************************************)
AdminOps == {"list", "get", "create", "update", "delete"}

Sent == resp # NoResp

\* the four ways a token fails: missing, malformed, forged, expired
Missing(tok) == tok = NoToken
NotASignedToken(tok) == tok.sig \in {"malformed"}
Forged(tok) == tok.sig \in {"other", "altered"}
Expired(tok, t) == tok.sig = jwtSecret /\ tok.exp <= t
BadToken(tok, t) == Missing(tok) \/ NotASignedToken(tok) \/ Forged(tok) \/ Expired(tok, t)

\* a token of the server that has not expired at time t
GoodToken(tok, t) == tok.sig = jwtSecret /\ t < tok.exp

\* the response carries no user data and no token
NoData(r) == r.user = AbsentJson /\ r.users = {} /\ r.token = NoToken

InFlight(c) == slot[c].pc # "idle"

\* the body of the request in flight for c
SlotBody(c) ==
  [username |-> slot[c].username, email |-> slot[c].email,
   password |-> slot[c].password, role |-> slot[c].role]

\* a stored user other than `self` holds the username or the email of body
HeldByOther(body, self) ==
  \E i \in DOMAIN users \ {self} :
    users[i].username = body.username.v \/ users[i].email = body.email.v

(***************************************************************************)
(* C1.  On list, get, create, update and delete, a request with a valid    *)
(* token whose role claim is not admin is answered 403; its handler never  *)
(* runs: no user record is returned, nothing is written, and no such       *)
(* request is ever in flight inside a handler.                             *)
(***************************************************************************)
C1_NonAdminForbidden ==
  /\ (/\ Sent
      /\ resp.op \in AdminOps
      /\ GoodToken(resp.reqToken, resp.at)
      /\ resp.reqToken.role # ROLES.ADMIN)
       => (resp.status = 403 /\ ~resp.ran /\ ~resp.wrote /\ NoData(resp))
  /\ \A c \in Clients :
       (InFlight(c) /\ slot[c].op \in AdminOps) => slot[c].token.role = ROLES.ADMIN

C1_Witness ==
  /\ Sent
  /\ resp.op = "update"
  /\ resp.status = 403
  /\ GoodToken(resp.reqToken, resp.at)
  /\ resp.reqToken.role = ROLES.USER
  /\ Cardinality(DOMAIN users) = Len(sampleUsers)

(***************************************************************************)
(* C2.  A protected request whose token is missing, malformed, forged or   *)
(* expired is answered 401, never 403 and never a success, and its handler *)
(* does not run; 403 is sent only to an authenticated subject whose role   *)
(* is not sufficient.                                                      *)
(***************************************************************************)
C2_BadTokenUnauthorized ==
  /\ (Sent /\ resp.op \in ProtectedOps /\ BadToken(resp.reqToken, resp.at))
       => (resp.status = 401 /\ ~resp.ran /\ ~resp.wrote /\ NoData(resp))
  /\ (Sent /\ resp.status = 403)
       => (/\ resp.op \in AdminOps
           /\ GoodToken(resp.reqToken, resp.at)
           /\ resp.reqToken.role # ROLES.ADMIN)
  /\ \A c \in Clients :
       (InFlight(c) /\ slot[c].op \in ProtectedOps)
         => GoodToken(slot[c].token, slot[c].at)

C2_Witness ==
  /\ Sent
  /\ resp.op = "delete"
  /\ resp.status = 401
  /\ Expired(resp.reqToken, resp.at)
  /\ resp.reqToken.role = ROLES.ADMIN

(***************************************************************************)
(* C3.  Self-demotion guard: an update by an admin whose token id is the   *)
(* id of the target, supplying a role other than admin, never succeeds and *)
(* changes no stored field (so the admin's stored role stays what it was), *)
(* whatever username, email or password comes with it; with the admin's    *)
(* record in the store the answer is 400, and for a role of the            *)
(* enumeration it is the guard's own message.                              *)
(***************************************************************************)
DemotesSelf(tok, id, body) ==
  /\ tok.role = ROLES.ADMIN
  /\ tok.id = id
  /\ body.role.t # "undefined"
  /\ body.role # JStr(ROLES.ADMIN)

C3_SelfDemotionRejected ==
  /\ (/\ Sent
      /\ resp.op = "update"
      /\ resp.ran
      /\ DemotesSelf(resp.reqToken, resp.id, resp.body))
       => (/\ ~resp.wrote
           /\ resp.status \in {400, 404}
           /\ NoData(resp)
           /\ resp.id \in DOMAIN users
                => (/\ resp.status = 400
                    /\ resp.body.role = JStr(ROLES.USER)
                         => resp.message = "You cannot remove your own admin privileges"))
  /\ \A c \in Clients :
       (InFlight(c) /\ slot[c].op = "update")
         => ~DemotesSelf(slot[c].token, slot[c].id,
                         [EmptyBody EXCEPT !.role = slot[c].role])

C3_Witness ==
  /\ Sent
  /\ resp.op = "update"
  /\ resp.status = 400
  /\ resp.message = "You cannot remove your own admin privileges"
  /\ resp.body = Body(JStr("alice"), JStr("alice@x.com"), JStr("secret1"), JStr("user"))
  /\ resp.id = resp.reqToken.id
  /\ resp.id \in DOMAIN users
  /\ users[resp.id].role = ROLES.ADMIN
  /\ users[resp.id].username = "admin"

(***************************************************************************)
(* C4.  Self-deletion guard: a delete by an admin whose token id is the id *)
(* of the target never removes anything and User.deleteUser is never       *)
(* reached; with the admin's record in the store the answer is 400 with    *)
(* the guard's message, and the record is still there.                     *)
(***************************************************************************)
C4_SelfDeletionRejected ==
  /\ (/\ Sent
      /\ resp.op = "delete"
      /\ resp.ran
      /\ resp.reqToken.role = ROLES.ADMIN
      /\ resp.reqToken.id = resp.id)
       => (/\ ~resp.wrote
           /\ resp.status \in {400, 404}
           /\ resp.status = 400 <=> resp.id \in DOMAIN users
           /\ resp.status = 400 => resp.message = "You cannot delete your own account")
  /\ \A c \in Clients :
       (InFlight(c) /\ slot[c].op = "delete") => slot[c].token.id # slot[c].id

C4_Witness ==
  /\ Sent
  /\ resp.op = "delete"
  /\ resp.status = 400
  /\ resp.reqToken.role = ROLES.ADMIN
  /\ resp.id = resp.reqToken.id
  /\ resp.id \in DOMAIN users
  /\ users[resp.id].role = ROLES.ADMIN

(***************************************************************************)
(* C5.  Every record POST /register inserts has role user, whatever the    *)
(* request body holds, a role field included.                              *)
(***************************************************************************)
C5_RegisterInsertsRoleUser ==
  [][\A c \in Clients :
       (slot[c].op = "register" /\ slot'[c] # slot[c] /\ users' # users)
         => (/\ nextId \notin DOMAIN users
             /\ DOMAIN users' = DOMAIN users \cup {nextId}
             /\ \A i \in DOMAIN users : users'[i] = users[i]
             /\ users'[nextId].username = slot[c].username.v
             /\ users'[nextId].role = ROLES.USER)]_vars

C5_Witness ==
  /\ Sent
  /\ resp.op = "register"
  /\ resp.status = 201
  /\ resp.body.role = JStr(ROLES.ADMIN)
  /\ resp.wrote
  /\ resp.id \in DOMAIN users
  /\ users[resp.id].username = "alice"
  /\ users[resp.id].role = ROLES.USER

(***************************************************************************)
(* C6.  No privilege escalation: a request that does not carry a valid     *)
(* token with role claim admin changes the users table in one way only,    *)
(* the insertion of a role-user record by register; it modifies and        *)
(* deletes no record and makes no stored role admin.                       *)
(***************************************************************************)
C6_NoEscalationWithoutAdminToken ==
  [][users' # users =>
       \/ seed' # seed
       \/ \E c \in Clients :
            /\ slot'[c] # slot[c]
            /\ \/ /\ slot[c].op \in AdminOps
                  /\ slot[c].token.role = ROLES.ADMIN
                  /\ GoodToken(slot[c].token, slot[c].at)
               \/ /\ slot[c].op = "register"
                  /\ DOMAIN users' = DOMAIN users \cup {nextId}
                  /\ \A i \in DOMAIN users : users'[i] = users[i]
                  /\ users'[nextId].role = ROLES.USER]_vars

C6_Witness ==
  /\ Sent
  /\ resp.op = "register"
  /\ resp.status = 201
  /\ resp.wrote
  /\ \E t \in issued : t.username = "john_doe" /\ t.role = ROLES.USER
  /\ \A i \in DOMAIN users : users[i].role = ROLES.ADMIN <=> i = 1

(***************************************************************************)
(* C7.  Every failed login whose body passed validation gets the one       *)
(* response 400 'Invalid username or password' with no further field, so   *)
(* that the response does not tell whether the username is in the store.   *)
(***************************************************************************)
C7_UniformLoginFailure ==
  (/\ Sent
   /\ resp.op = "login"
   /\ LoginErrors(resp.body) = {}
   /\ resp.token = NoToken)
    => (/\ resp.status = 400
        /\ resp.message = "Invalid username or password"
        /\ resp.errors = {}
        /\ NoData(resp))

(***************************************************************************)
(* C8.  No response of any endpoint carries the password field of a user.  *)
(***************************************************************************)
C8_NoCredentialInResponses ==
  Sent => /\ "password" \notin DOMAIN resp.user
          /\ \A u \in resp.users : "password" \notin DOMAIN u

C8_Witness ==
  /\ Sent
  /\ resp.op = "get"
  /\ resp.status = 200
  /\ resp.id \in DOMAIN users
  /\ IsHash(users[resp.id].password)
  /\ resp.user = [id |-> resp.id, username |-> users[resp.id].username,
                  email |-> users[resp.id].email, role |-> users[resp.id].role]

(***************************************************************************)
(* C9.  The password column of every stored user holds the output of the   *)
(* hash function, and a request whose password the hash function rejects   *)
(* ends without success and without a write.                               *)
(***************************************************************************)
C9_StoredCredentialsHashed ==
  /\ \A i \in DOMAIN users : IsHash(users[i].password)
  /\ (/\ Sent
      /\ resp.ran
      /\ resp.op \in {"register", "create", "update"}
      /\ Truthy(resp.body.password)
      /\ bcryptThrows(resp.body.password))
       => (~resp.wrote /\ resp.status \notin {200, 201})

C9_Witness ==
  /\ Sent
  /\ resp.op = "register"
  /\ resp.status = 201
  /\ resp.id \in DOMAIN users
  /\ users[resp.id].password = bcryptHash(JStr("secret1"), saltRounds)
  /\ users[1].password = bcryptHash(JStr("admin123"), saltRounds)

(***************************************************************************)
(* C10.  In every store state no two users share a username and no two     *)
(* users share an email, however register, admin-create and admin-update   *)
(* requests interleave.                                                    *)
(***************************************************************************)
C10_UsernameAndEmailUnique ==
  \A i \in DOMAIN users : \A j \in DOMAIN users :
    i # j => (users[i].username # users[j].username /\ users[i].email # users[j].email)

\* a register lost the race on the email to an update that had no pre-check
C10_Witness ==
  /\ Sent
  /\ resp.op = "register"
  /\ resp.status = 500
  /\ resp.body.username = JStr("alicia")
  /\ \E i \in DOMAIN users : users[i].email = "alice@x.com" /\ users[i].username = "john_doe"

(***************************************************************************)
(* C11.  Every stored role is admin or user.  Admin-create and             *)
(* admin-update answer a role outside the enumeration with a validation    *)
(* error on the role field and write nothing, and User.updateUserRole      *)
(* called with such a role throws without writing.                         *)
(***************************************************************************)
C11_RoleEnumeration ==
  /\ \A i \in DOMAIN users : users[i].role \in {ROLES.ADMIN, ROLES.USER}
  /\ (/\ Sent /\ resp.ran /\ resp.reqToken # NoToken
      /\ \/ resp.op = "create" /\ resp.body.role \notin {JStr(ROLES.ADMIN), JStr(ROLES.USER)}
         \/ /\ resp.op = "update"
            /\ resp.body.role \notin {JUndef, JStr(ROLES.ADMIN), JStr(ROLES.USER)})
       => (resp.status = 400 /\ "role" \in resp.errors /\ ~resp.wrote)
  /\ (/\ Sent /\ resp.op = "update" /\ resp.reqToken = NoToken
      /\ resp.body.role \notin {JStr(ROLES.ADMIN), JStr(ROLES.USER)})
       => (resp.status = 500 /\ ~resp.wrote)

C11_Witness ==
  /\ Sent
  /\ resp.op = "update"
  /\ resp.reqToken = NoToken
  /\ resp.body.role = JStr("root")
  /\ resp.id \in DOMAIN users
  /\ resp.status = 500
  /\ users[resp.id].role = ROLES.USER

(***************************************************************************)
(* C12.  A register request whose username or email a stored user already  *)
(* holds is answered 400 with the duplicate message; it inserts nothing,   *)
(* gets no token, and changes no stored record.                            *)
(***************************************************************************)
C12_DuplicateRegisterRejected ==
  (/\ Sent
   /\ resp.op = "register"
   /\ RegisterErrors(resp.body) = {}
   /\ HeldByOther(resp.body, resp.id))
    => (/\ resp.status = 400
        /\ resp.message \in {"Username already taken", "Email already registered"}
        /\ ~resp.wrote
        /\ resp.id = 0
        /\ NoData(resp))

C12_Witness ==
  /\ Sent
  /\ resp.op = "register"
  /\ resp.body.username = JStr("alice")
  /\ resp.body.email = JStr("admin@example.com")
  /\ resp.status = 400
  /\ resp.message = "Email already registered"
  /\ DOMAIN users = {1, 2, 3}
  /\ users[1] = [username |-> "admin", email |-> "admin@example.com",
                 password |-> bcryptHash(JStr("admin123"), saltRounds),
                 role |-> ROLES.ADMIN]

(***************************************************************************)
(* C13.  When two create requests for the same username or email both pass *)
(* their pre-checks before either inserts, one record is inserted and the  *)
(* request that lost is answered with the duplicate outcome 400, without a *)
(* token, not with the store failure 500.                                  *)
(***************************************************************************)
C13_RaceLoserGetsDuplicate ==
  /\ \A i \in DOMAIN users : Cardinality(IdsByUsername(users[i].username)) = 1
  /\ (/\ Sent
      /\ resp.op \in {"register", "create"}
      /\ resp.ran
      /\ resp.errors = {}
      /\ ~resp.wrote
      /\ HeldByOther(resp.body, 0))
       => (resp.status = 400 /\ NoData(resp))

(***************************************************************************)
(* C14.  A token is issued only by a register request that inserted a user *)
(* or by a login whose password verified, one per such request, and its    *)
(* claims are the id, username and role of that user's stored record at    *)
(* the moment of issue (role user for a registration).                     *)
(***************************************************************************)
TokenOfSuccess ==
  Sent =>
    /\ resp.token # NoToken
         <=> \/ resp.op = "register" /\ resp.status = 201
             \/ resp.op = "login" /\ resp.status = 200
    /\ resp.token # NoToken =>
         /\ resp.token.sig = jwtSecret
         /\ resp.token.id \in DOMAIN users
         /\ Claims(resp.token) =
              [id |-> resp.token.id,
               username |-> users[resp.token.id].username,
               role |-> users[resp.token.id].role]
         /\ users[resp.token.id].username = resp.body.username.v
         /\ resp.op = "register" =>
              (resp.wrote /\ resp.id = resp.token.id /\ resp.token.role = ROLES.USER)
         /\ resp.op = "login" =>
              (~resp.wrote
               /\ bcryptCompare(resp.body.password, users[resp.token.id].password))

C15_IssueThenValidate ==
  /\ (Sent /\ resp.token # NoToken) =>
       /\ Claims(resp.token) = [id |-> resp.user.id, username |-> resp.user.username,
                                role |-> resp.user.role]
       /\ \A t \in now..(MaxTime + jwtExpiration + 1) :
            validate(resp.token, t) =
              IF t < now + jwtExpiration THEN "ok" ELSE "TokenExpired"
  /\ (Sent /\ resp.op \in ProtectedOps /\ resp.reqToken \in issued) =>
       /\ resp.at < resp.reqToken.exp =>
            (resp.status # 401 /\ validate(resp.reqToken, resp.at) = "ok")
       /\ resp.at >= resp.reqToken.exp =>
            (resp.status = 401 /\ validate(resp.reqToken, resp.at) = "TokenExpired")

C15_Witness ==
  /\ Sent
  /\ resp.op = "me"
  /\ resp.reqToken \in issued
  /\ resp.reqToken.exp = jwtExpiration
  /\ resp.at = jwtExpiration
  /\ validate(resp.reqToken, resp.at) = "TokenExpired"
  /\ resp.status = 401

(***************************************************************************)
(* C16.  A token whose signature does not match the server secret is       *)
(* rejected with TokenInvalid whether or not it has expired, the signature *)
(* being checked before the expiry; no forged token yields subject claims  *)
(* to a handler.                                                           *)
(***************************************************************************)
C16_ForgedTokenInvalid ==
  /\ (Sent /\ resp.op \in ProtectedOps /\ Forged(resp.reqToken)) =>
       /\ validate(resp.reqToken, resp.at) = "TokenInvalid"
       /\ resp.status = 401
       /\ ~resp.ran
       /\ NoData(resp)
  /\ \A c \in Clients : InFlight(c) => ~Forged(slot[c].token)

C16_Witness ==
  /\ Sent
  /\ resp.op = "list"
  /\ resp.reqToken.sig = "other"
  /\ resp.reqToken.role = ROLES.ADMIN
  /\ resp.reqToken.exp <= resp.at
  /\ resp.status = 401
  /\ issued # {}

(***************************************************************************)
(* C17.  A token of the server authenticates, with the role claim it was   *)
(* issued with, at every time before its expiry, whatever has happened to  *)
(* its user in the store since: authorize decides on the role of the       *)
(* claims, not on the stored role.                                         *)
(***************************************************************************)
C17_ValidityIndependentOfStore ==
  (/\ Sent
   /\ resp.op \in ProtectedOps
   /\ GoodToken(resp.reqToken, resp.at))
    => (/\ resp.status # 401
        /\ resp.op = "me" => resp.ran
        /\ resp.op \in AdminOps =>
             /\ resp.reqToken.role # ROLES.ADMIN => (resp.status = 403 /\ ~resp.ran)
             /\ resp.reqToken.role = ROLES.ADMIN => (resp.status # 403 /\ resp.ran))

C17_Witness ==
  /\ Sent
  /\ resp.op = "list"
  /\ resp.reqToken \in issued
  /\ resp.reqToken.role = ROLES.USER
  /\ resp.reqToken.id \in DOMAIN users
  /\ users[resp.reqToken.id].role = ROLES.ADMIN
  /\ resp.status = 403

(***************************************************************************)
(* C18.  GET /me with a valid token answers 404 when the store holds no    *)
(* user with the id of the token, and otherwise returns the record         *)
(* currently stored under that id without its password: the current        *)
(* username, email and role, not those of the token.                       *)
(***************************************************************************)
C18_ProfileFromStore ==
  (Sent /\ resp.op = "me" /\ resp.ran) =>
    IF resp.reqToken.id \in DOMAIN users
    THEN /\ resp.status = 200
         /\ resp.user = [id |-> resp.reqToken.id,
                         username |-> users[resp.reqToken.id].username,
                         email |-> users[resp.reqToken.id].email,
                         role |-> users[resp.reqToken.id].role]
    ELSE /\ resp.status = 404
         /\ resp.message = "User not found"
         /\ NoData(resp)

C18_Witness ==
  /\ Sent
  /\ resp.op = "me"
  /\ resp.status = 200
  /\ resp.reqToken.username = "john_doe"
  /\ resp.reqToken.role = ROLES.USER
  /\ resp.user.id = resp.reqToken.id
  /\ resp.user.username = "alice"
  /\ resp.user.role = ROLES.ADMIN

(***************************************************************************)
(* C19.  An admin-update that supplies a password replaces the stored      *)
(* credential of the target with the hash of that password: after the 200  *)
(* response the new password verifies against the stored credential (a     *)
(* login with it succeeds) and the old one does not.                       *)
(***************************************************************************)
C19_UpdateReplacesCredential ==
  (/\ Sent
   /\ resp.op = "update"
   /\ resp.status = 200
   /\ Truthy(resp.body.password)
   /\ resp.id \in DOMAIN users)
    => (/\ IsHash(users[resp.id].password)
        /\ bcryptCompare(resp.body.password, users[resp.id].password))

(***************************************************************************)
(* C20.  Admin-create with a username or email that a stored user holds is *)
(* answered 400 with the duplicate message and inserts nothing; with a     *)
(* fresh username and email and a role in {admin, user} it inserts exactly *)
(* one record, carrying the role of the request, and returns it with 201.  *)
(***************************************************************************)
CreateOutcome ==
  (/\ Sent
   /\ resp.op = "create"
   /\ resp.ran
   /\ CreateErrors(resp.body) = {}
   /\ resp.body.password.t = "string")
    => IF HeldByOther(resp.body, resp.id)
       THEN /\ resp.status = 400
            /\ resp.message \in {"Username already taken", "Email already registered"}
            /\ ~resp.wrote
            /\ NoData(resp)
       ELSE /\ resp.status = 201
            /\ resp.wrote
            /\ resp.id \in DOMAIN users
            /\ users[resp.id] = [username |-> resp.body.username.v,
                                 email |-> resp.body.email.v,
                                 password |-> bcryptHash(resp.body.password, saltRounds),
                                 role |-> resp.body.role.v]
            /\ resp.user = [id |-> resp.id, username |-> resp.body.username.v,
                            email |-> resp.body.email.v, role |-> resp.body.role.v]

C21_LoginExactlyForPassword ==
  (/\ Sent
   /\ resp.op = "login"
   /\ LoginErrors(resp.body) = {}
   /\ IdsByUsername(resp.body.username.v) # {})
    => LET i == CHOOSE j \in IdsByUsername(resp.body.username.v) : TRUE
       IN /\ resp.status = 200 <=> resp.body.password = JStr(users[i].password.of)
          /\ resp.status # 200 =>
               (resp.status = 400 /\ resp.message = "Invalid username or password")

(***************************************************************************)
(* C22.  Register validates the shape, then checks the username, then the  *)
(* email, then hashes, inserts and issues the token; a request that fails  *)
(* at a step performs none of the later ones: a colliding request is never *)
(* at the hashing or inserting step, and when username and email both      *)
(* collide the username is the one reported.                               *)
(***************************************************************************)
C22_RegisterStepOrder ==
  /\ \A c \in Clients :
       (slot[c].op = "register" /\ InFlight(c)) =>
         /\ RegisterErrors(SlotBody(c)) = {}
         /\ IdsByUsername(slot[c].username.v) \ {slot[c].id} = {}
         /\ slot[c].pc \in {"createUser", "createUser_findById"} =>
              ~HeldByOther(SlotBody(c), slot[c].id)
         /\ slot[c].pc = "createUser_findById" => ~bcryptThrows(slot[c].password)
         /\ slot[c].pc # "createUser_findById" => ~slot[c].wrote
  /\ (Sent /\ resp.op = "register") =>
       IF RegisterErrors(resp.body) # {}
       THEN /\ resp.status = 400 /\ resp.errors = RegisterErrors(resp.body)
            /\ ~resp.wrote /\ NoData(resp)
       ELSE IF IdsByUsername(resp.body.username.v) \ {resp.id} # {}
       THEN /\ resp.status = 400 /\ resp.message = "Username already taken"
            /\ ~resp.wrote /\ NoData(resp)
       ELSE IF IdsByEmail(resp.body.email.v) \ {resp.id} # {}
       THEN /\ resp.status = 400 /\ resp.message = "Email already registered"
            /\ ~resp.wrote /\ NoData(resp)
       ELSE IF bcryptThrows(resp.body.password)
       THEN /\ resp.status = 500 /\ ~resp.wrote /\ NoData(resp)
       ELSE /\ resp.status = 201 /\ resp.wrote /\ resp.token # NoToken

C22_Witness ==
  /\ Sent
  /\ resp.op = "register"
  /\ resp.body.username = JStr("admin")
  /\ resp.body.email = JStr("admin@example.com")
  /\ IdsByUsername("admin") = {1}
  /\ IdsByEmail("admin@example.com") = {1}
  /\ resp.status = 400
  /\ resp.message = "Username already taken"
  /\ ~resp.wrote

(***************************************************************************)
(* C23.  Update and delete authenticate, authorize, load the target, apply *)
(* the guard and only then call the store: a request answered 400, 401,    *)
(* 403 or 404 has written nothing, and an update or delete of an id that   *)
(* is not stored gets 404.                                                 *)
(***************************************************************************)
C23_RejectedBeforeStoreCall ==
  /\ (Sent /\ resp.op \in {"update", "delete"} /\ resp.reqToken # NoToken) =>
       /\ resp.status \in {400, 401, 403, 404} => ~resp.wrote
       /\ BadToken(resp.reqToken, resp.at) => (resp.status = 401 /\ ~resp.ran)
       /\ (GoodToken(resp.reqToken, resp.at) /\ resp.reqToken.role # ROLES.ADMIN)
            => (resp.status = 403 /\ ~resp.ran)
       /\ (resp.ran /\ ~resp.wrote /\ resp.errors = {} /\ resp.id \notin DOMAIN users)
            => (resp.status = 404 /\ resp.message = "User not found")
  /\ \A c \in Clients :
       (slot[c].op \in {"update", "delete"} /\ InFlight(c) /\ slot[c].token # NoToken) =>
         /\ GoodToken(slot[c].token, slot[c].at)
         /\ slot[c].token.role = ROLES.ADMIN
         /\ ~slot[c].wrote => slot[c].id \in DOMAIN users
         /\ slot[c].op = "delete" => slot[c].id # slot[c].token.id
         /\ slot[c].op = "update" =>
              ~(slot[c].id = slot[c].token.id /\ Truthy(slot[c].role)
                /\ slot[c].role.v # ROLES.ADMIN)

C23_Witness ==
  /\ Sent
  /\ resp.op = "delete"
  /\ resp.reqToken.role = ROLES.ADMIN
  /\ resp.id = 4
  /\ DOMAIN users = {1, 2, 3}
  /\ resp.status = 404
  /\ ~resp.wrote

(***************************************************************************)
(* C24.  User.updateUser and User.updateUserRole change only fields that   *)
(* were supplied, of the user with the given id only, and leave every      *)
(* other field and every other user as they were; with no field supplied   *)
(* updateUser writes nothing and returns the current record.               *)
(***************************************************************************)
C24_UpdateFrame ==
  [][\A c \in Clients :
       (slot[c].op = "update" /\ slot'[c] # slot[c]) =>
         /\ DOMAIN users' = DOMAIN users
         /\ \A i \in DOMAIN users : i # slot[c].id => users'[i] = users[i]
         /\ slot[c].pc \notin {"updateUser", "updateUserRole"} => users' = users
         /\ (slot[c].pc = "updateUser" /\ slot[c].id \in DOMAIN users) =>
              /\ users'[slot[c].id].username # users[slot[c].id].username
                   => (/\ "username" \in Updates(slot[c])
                       /\ users'[slot[c].id].username = slot[c].username.v)
              /\ users'[slot[c].id].email # users[slot[c].id].email
                   => (/\ "email" \in Updates(slot[c])
                       /\ users'[slot[c].id].email = slot[c].email.v)
              /\ users'[slot[c].id].password # users[slot[c].id].password
                   => (/\ "password" \in Updates(slot[c])
                       /\ bcryptCompare(slot[c].password, users'[slot[c].id].password))
              /\ users'[slot[c].id].role = users[slot[c].id].role
              /\ (Updates(slot[c]) = {} /\ ~Truthy(slot[c].role)) =>
                   /\ users' = users
                   /\ resp'.status = 200
                   /\ resp'.user = BasicInfo(UserObj(slot[c].id))
         /\ (slot[c].pc = "updateUserRole" /\ slot[c].id \in DOMAIN users) =>
              users' = [users EXCEPT ![slot[c].id].role = slot[c].role.v]]_vars

C24_Witness ==
  /\ Sent
  /\ resp.op = "update"
  /\ resp.status = 200
  /\ resp.body = Body(JStr("alice"), JUndef, JUndef, JUndef)
  /\ resp.id = 2
  /\ resp.wrote
  /\ users[2] = [username |-> "alice", email |-> "john@example.com",
                 password |-> bcryptHash(JStr("password123"), saltRounds),
                 role |-> ROLES.USER]
  /\ users[1].username = "admin"
  /\ users[3].username = "jane_smith"

(***************************************************************************)
(* C25.  User.deleteUser returns true exactly when a record with the id    *)
(* existed and this call removed it, and DELETE answers 200 only then: of  *)
(* two interleaved deletes of one existing target one is answered 200, the *)
(* target is removed once, and no other record is touched.                 *)
(***************************************************************************)
C25_DeleteOnce ==
  [][/\ \A c \in Clients :
          (slot[c].op = "delete" /\ slot[c].pc = "deleteUser" /\ slot'[c] # slot[c]) =>
            /\ resp'.status = 200 <=> slot[c].id \in DOMAIN users
            /\ resp'.status = 200 =>
                 /\ DOMAIN users' = DOMAIN users \ {slot[c].id}
                 /\ \A i \in DOMAIN users' : users'[i] = users[i]
            /\ resp'.status # 200 =>
                 (resp'.status = 500 /\ users' = users /\ ~resp'.wrote)
     /\ \A i \in DOMAIN users' : i < nextId'
     /\ nextId' >= nextId]_vars

C25_Witness ==
  /\ Sent
  /\ resp.op = "delete"
  /\ resp.id = 2
  /\ resp.status = 500
  /\ resp.message = "Failed to delete user"
  /\ ~resp.wrote
  /\ DOMAIN users = {1, 3}

(***************************************************************************)
(* C26.  An admin update is all-or-nothing: no state that another request  *)
(* can observe has some of the supplied fields (username/email and role)   *)
(* applied and others not, and a request answered with an error has        *)
(* applied none of them.                                                   *)
(***************************************************************************)
C26_UpdateAllOrNothing ==
  /\ \A c \in Clients :
       (/\ slot[c].op = "update" /\ InFlight(c) /\ slot[c].token # NoToken
        /\ slot[c].wrote
        /\ slot[c].id \in DOMAIN users
        /\ Truthy(slot[c].role))
         => users[slot[c].id].role = slot[c].role.v
  /\ (Sent /\ resp.op = "update" /\ resp.status >= 400) => ~resp.wrote

(***************************************************************************)
(* C27.  Lockout prevention: once the store holds an admin, every store    *)
(* state reached by any sequence of login, update and delete requests,     *)
(* with tokens used before their expiry, still holds a user with role      *)
(* admin.                                                                  *)
(***************************************************************************)
C27_AlwaysAnAdmin ==
  seed.pc = "done" => \E i \in DOMAIN users : users[i].role = ROLES.ADMIN

(***************************************************************************)
(* C28.  A 200 response to an admin update carries the record of the       *)
(* target as stored after the update, never null and never another user's  *)
(* record, and a 201 response to register or admin-create carries the      *)
(* inserted user, also when a delete of the same id by another admin falls *)
(* between the write and the re-read.                                      *)
(***************************************************************************)
C28_ResponseCarriesRecord ==
  /\ (Sent /\ resp.op = "update" /\ resp.status = 200) =>
       /\ resp.user # NullJson
       /\ resp.user # AbsentJson
       /\ resp.user.id = resp.id
  /\ (Sent /\ resp.op \in {"register", "create"} /\ resp.status = 201) =>
       /\ resp.user # NullJson
       /\ resp.user # AbsentJson
       /\ resp.user.id = resp.id

(***************************************************************************)
(* C29.  Initialisation is idempotent: createSampleUsers enters its insert *)
(* loop only when it counted an empty users table and then inserts the     *)
(* sample users (admin as admin, john_doe and jane_smith as user);         *)
(* otherwise it changes nothing, so a further run of initializeDatabase    *)
(* leaves the store as it is and neither duplicates nor alters a user.     *)
(***************************************************************************)
C29_InitIdempotent ==
  [][seed' # seed =>
       /\ seed.pc = "count" =>
            /\ users' = users
            /\ seed'.pc = "insert" <=> users = << >>
            /\ seed'.pc # "insert" => seed'.pc = "done"
       /\ seed.pc = "insert" =>
            \/ users' = users /\ seed'.pc = "failed"
            \/ /\ nextId \notin DOMAIN users
               /\ DOMAIN users' = DOMAIN users \cup {nextId}
               /\ \A i \in DOMAIN users : users'[i] = users[i]
               /\ users'[nextId] =
                    [username |-> sampleUsers[seed.i].username,
                     email |-> sampleUsers[seed.i].email,
                     password |-> bcryptHash(JStr(sampleUsers[seed.i].password), saltRounds),
                     role |-> IF seed.i = 1 THEN ROLES.ADMIN ELSE ROLES.USER]
               /\ \A i \in DOMAIN users :
                    /\ users[i].username # users'[nextId].username
                    /\ users[i].email # users'[nextId].email
       /\ seed.pc \in {"done", "failed"} => users' = users]_vars

C29_Witness ==
  /\ seed.pc = "count"
  /\ DOMAIN users = {1, 2, 3}
  /\ users[1].username = "admin" /\ users[1].role = ROLES.ADMIN
  /\ users[2].username = "john_doe" /\ users[2].role = ROLES.USER
  /\ users[3].username = "jane_smith" /\ users[3].role = ROLES.USER
  /\ nextId = 4

(***************************************************************************)
(* C30.  Every API request a dashboard page issues through fetchWithAuth   *)
(* carries the session token stored in localStorage, on the user dashboard *)
(* and on the admin dashboard alike; and when such a request is answered   *)
(* 401 the stored token is removed and the page goes to login.             *)
(***************************************************************************)
C30_FetchWithAuthCarriesToken ==
  [][/\ (resp' # NoResp /\ resp'.op \in {"me", "list", "get", "delete"}) =>
          /\ browser.token # NoToken
          /\ resp'.reqToken = browser.token
     /\ (resp # NoResp /\ resp.op \in {"me", "list", "get", "delete"}
           /\ resp.status = 401 /\ resp' = NoResp) =>
          browser' = [page |-> "login", token |-> NoToken]]_vars

====
